---- MODULE Spec2Model ----
(***************************************************************************)
(* Lead-intake bot (bot.py) and its lead log (leads.py).                   *)
(*                                                                         *)
(* A text is a sequence of tokens: " " is a whitespace character, "a" a    *)
(* letter, and "/start", "/cancel", "/leads" stand for those command       *)
(* words.  A field value is a text; NoneVal stands for Python's None.      *)
(* Callback data is a sequence of tokens too: "svc:" and "nav:" prefixes,  *)
(* decimal digits, "-", and the words after "nav:".                        *)
(***************************************************************************)
EXTENDS Integers, Sequences, FiniteSets, TLC

VARIABLES
    state,          \* FSMContext state of each session (MemoryStorage)
    data,           \* FSMContext data of each session: key -> value
    file,           \* LEADS_FILE: whether it exists, and its lines
    ADMIN_CHAT_ID,  \* parsed from the environment at import; 0 = not set
    out,            \* messages the last handler delivered, in order
    read,           \* whether the last handler opened the log for reading
    ev,             \* the update that handler was called for
    pass,           \* history: per session, the inputs of its current pass
    lim,            \* limit of the load_last_leads call whose result is res;
                    \* -1 when no call was made since the log last changed
    res,            \* what that call returned, by bot.py and by leads.py
    packed,         \* the last format_leads_for_admin call: its leads and
                    \* the chunks bot.py and leads.py made of them
    tasks           \* handler tasks suspended at an outbound call

vars == <<state, data, file, ADMIN_CHAT_ID, out, read, ev, pass, lim, res, packed, tasks>>

------------------------------------------------------------------------------
(* Bounds *)

\* most lines the log may hold before process_details stops being scheduled
MaxFile == 1
\* longest log the store harness starts from
MaxLines == 3
\* largest limit the store harness passes to load_last_leads
MaxLimit == 4
\* longest list of leads the formatter harness formats
MaxBlocks == 4
\* most handler tasks suspended at once
MaxTasks == 2
\* most lines the log may hold before a task's write stops succeeding
MaxTaskFile == 2

------------------------------------------------------------------------------
(* Values *)

Sessions == {1, 2}

NoneVal == <<"None">>
\* LEADS_FILE before anything created it
NoFile == [exists |-> FALSE, lines |-> << >>]
EmptyData == << >>

\* bot.py:40-46, one token per label
SERVICE_OPTIONS ==
    << <<"import">>, <<"tuning">>, <<"tyres">>, <<"detailing">>, <<"consult">> >>

\* aiogram state names; "None" is the cleared state (Idle)
Idle == "None"
choosing_service == "choosing_service"
getting_name == "getting_name"
getting_city == "getting_city"
getting_contact == "getting_contact"
getting_details == "getting_details"
Collecting == {getting_name, getting_city, getting_contact, getting_details}

\* message.text values the environment sends: free text (none at all,
\* whitespace only, a letter in whitespace) and the three commands
FreeTexts == { NoneVal, <<" ">>, <<" ", "a", " ">> }
Commands == { <<"/start">>, <<"/cancel">>, <<"/leads">> }
Texts == FreeTexts \cup Commands

\* callback.data values the environment sends: the last button of the
\* service keyboard, the index just past the catalog, the two navigation
\* payloads of keyboards.py
BasicPayloads ==
    { <<"svc:", "4">>, <<"svc:", "5">>, <<"nav:", "services">>, <<"nav:", "cancel">> }

\* and, besides those, the first button, a negative index, a payload that is
\* no number and one with nothing after the colon
Payloads ==
    BasicPayloads \cup
    { <<"svc:", "0">>, <<"svc:", "-", "1">>, <<"svc:", "x">>, <<"svc:">> }

------------------------------------------------------------------------------
(* str helpers *)

RECURSIVE LStrip(_)
LStrip(t) ==
    IF t = << >> THEN << >>
    ELSE IF Head(t) = " " THEN LStrip(Tail(t)) ELSE t

RECURSIVE RStrip(_)
RStrip(t) ==
    IF t = << >> THEN << >>
    ELSE IF t[Len(t)] = " " THEN RStrip(SubSeq(t, 1, Len(t) - 1)) ELSE t

\* str.strip()
Strip(t) == RStrip(LStrip(t))

\* mutant of TextOrEmptyStripped: the .strip() is forgotten
TextOrEmptyUnstripped(text) == IF text = NoneVal THEN << >> ELSE text

\* (message.text or "").strip()
TextOrEmptyStripped(text) == Strip(IF text = NoneVal THEN << >> ELSE text)

RECURSIVE FirstWordOf(_)
FirstWordOf(t) ==
    IF t = << >> \/ Head(t) = " " THEN << >>
    ELSE <<Head(t)>> \o FirstWordOf(Tail(t))

\* Command(c) / CommandStart() filter: the first word of the text is the command
IsCommand(text, c) ==
    /\ text # NoneVal
    /\ FirstWordOf(LStrip(text)) = <<c>>

Digits == {"0", "1", "2", "3", "4", "5", "6", "7", "8", "9"}
DigitVal(c) ==
    CASE c = "0" -> 0 [] c = "1" -> 1 [] c = "2" -> 2 [] c = "3" -> 3
      [] c = "4" -> 4 [] c = "5" -> 5 [] c = "6" -> 6 [] c = "7" -> 7
      [] c = "8" -> 8 [] c = "9" -> 9

RECURSIVE NatOf(_)
NatOf(ds) ==
    IF ds = << >> THEN 0
    ELSE 10 * NatOf(SubSeq(ds, 1, Len(ds) - 1)) + DigitVal(ds[Len(ds)])

AllDigits(ds) == ds # << >> /\ \A i \in 1..Len(ds) : ds[i] \in Digits

\* int(idx_str) succeeds
IntParses(str) ==
    IF str # << >> /\ Head(str) = "-" THEN AllDigits(Tail(str)) ELSE AllDigits(str)

\* int(idx_str) when it succeeds
IntOf(str) ==
    IF Head(str) = "-" THEN 0 - NatOf(Tail(str)) ELSE NatOf(str)

\* F.data.startswith("svc:")
StartsWithSvc(cd) == cd # NoneVal /\ cd # << >> /\ Head(cd) = "svc:"

\* try: idx = int(idx_str) except ValueError: idx = 0
ServiceIndex(cd) ==
    LET idx_str == Tail(cd) IN
    IF IntParses(idx_str) THEN IntOf(idx_str) ELSE 0

------------------------------------------------------------------------------
(* FSMContext *)

\* state.update_data(key=value)
UpdateData(d, key, value) ==
    [k \in DOMAIN d \cup {key} |-> IF k = key THEN value ELSE d[k]]

\* data.get(key)
Get(d, key) == IF key \in DOMAIN d THEN d[key] ELSE NoneVal

------------------------------------------------------------------------------
(* Lead log *)

BlankLine == [kind |-> "blank"]
GarbageLine == [kind |-> "garbage"]

\* json.dump(lead, f); f.write("\n")
JsonLine(lead) == [kind |-> "json", obj |-> lead]

\* save_lead_to_file: append one line, or leave the log as it is when the
\* write raises (the exception is caught and logged)
save_lead_to_file(f, lead, write_ok) ==
    IF ~write_ok THEN f
    ELSE [exists |-> TRUE, lines |-> Append(f.lines, JsonLine(lead))]

\* mutant of ParseLines: the first line json.loads rejects ends the read
RECURSIVE ParseLinesAborting(_)
ParseLinesAborting(lines) ==
    IF lines = << >> THEN << >>
    ELSE LET l == Head(lines) IN
         IF l.kind = "json" THEN <<l.obj>> \o ParseLinesAborting(Tail(lines))
         ELSE IF l.kind = "blank" THEN ParseLinesAborting(Tail(lines))
         ELSE << >>

\* the read loop: blank lines and lines json.loads rejects are skipped
RECURSIVE ParseLines(_)
ParseLines(lines) ==
    IF lines = << >> THEN << >>
    ELSE LET l == Head(lines) IN
         IF l.kind = "json" THEN <<l.obj>> \o ParseLines(Tail(lines))
         ELSE ParseLines(Tail(lines))

\* leads[-limit:] for limit >= 0 (Python: -0 is 0, so leads[-0:] is leads[0:])
SliceLast(leads, limit) ==
    LET n == Len(leads)
        start == IF limit = 0 THEN 0
                 ELSE IF n - limit < 0 THEN 0 ELSE n - limit
    IN SubSeq(leads, start + 1, n)

\* bot.py's load_last_leads
load_last_leads(f, limit) ==
    IF ~f.exists THEN << >>
    ELSE LET leads == ParseLines(f.lines) IN
         IF leads = << >> THEN << >> ELSE SliceLast(leads, limit)

\* leads.py's load_last_leads
leads_load_last_leads(f, limit) ==
    IF ~f.exists THEN << >> ELSE SliceLast(ParseLines(f.lines), limit)

\* the exception open(LEADS_FILE, "r") raises, if any
OpenError(f) == IF f.exists THEN "none" ELSE "FileNotFoundError"

\* the exception json.loads(line) raises, if any
LineError(l) == IF l.kind = "garbage" THEN "JSONDecodeError" ELSE "none"

\* mutant of CaughtAroundOpen: the except FileNotFoundError clause is missing
CaughtNothing == {}

\* except FileNotFoundError: return []
CaughtAroundOpen == {"FileNotFoundError"}

\* except json.JSONDecodeError: continue
CaughtAroundLoads == {"JSONDecodeError"}

\* load_last_leads lets an exception out: one of open() that the outer try
\* does not catch, or one of json.loads that neither try catches (blank
\* lines never reach json.loads)
load_last_leads_raises(f) ==
    \/ OpenError(f) \notin {"none"} \cup CaughtAroundOpen
    \/ /\ f.exists
       /\ \E i \in 1..Len(f.lines) :
             LineError(f.lines[i]) \notin {"none"} \cup CaughtAroundLoads \cup CaughtAroundOpen

NoResult == [bot |-> << >>, lib |-> << >>, raised |-> FALSE]

\* no format_leads_for_admin call made yet
NoPacked == [done |-> FALSE, leads |-> << >>, bot |-> << >>, lib |-> << >>]

------------------------------------------------------------------------------
(* Dispatcher *)

Msg(to, tag) == [to |-> to, msg |-> tag]

\* an update: a message of session s with this text, or a callback query of
\* session s with this data
Update(s, kind, inp) == [s |-> s, kind |-> kind, inp |-> inp]
NoUpdate == Update(0, "none", NoneVal)

\* the first message handler, in registration order, whose filters pass
MessageRoute(st, text) ==
    IF IsCommand(text, "/start") THEN "cmd_start"
    ELSE IF IsCommand(text, "/cancel") THEN "cmd_cancel"
    ELSE IF st = getting_name THEN "process_name"
    ELSE IF st = getting_city THEN "process_city"
    ELSE IF st = getting_contact THEN "process_contact"
    ELSE IF st = getting_details THEN "process_details"
    ELSE IF IsCommand(text, "/leads") THEN "cmd_leads"
    ELSE "unhandled"

\* the only callback_query handler
CallbackRoute(st, cd) ==
    IF st = choosing_service /\ StartsWithSvc(cd) THEN "process_service_callback"
    ELSE "unhandled"

\* message.from_user.username
Username(s) == IF s = 1 THEN <<"a">> ELSE NoneVal

\* the dict process_details builds; datetime.now() is the token "ts"
Lead(d, s) ==
    [created_at |-> <<"ts">>,
     service |-> Get(d, "service"),
     name |-> Get(d, "name"),
     city |-> Get(d, "city"),
     contact |-> Get(d, "contact"),
     details |-> Get(d, "details"),
     tg_id |-> s,
     username |-> Username(s)]

\* number of characters a token stands for
TokenLen(tok) ==
    CASE tok = "/start" -> 6 [] tok = "/cancel" -> 7 [] tok = "/leads" -> 6
      [] tok = "None" -> 4 [] tok = "ts" -> 19
      [] tok = "import" -> 23 [] tok = "tuning" -> 23 [] tok = "tyres" -> 19
      [] tok = "detailing" -> 27 [] tok = "consult" -> 19
      [] tok = "x1880" -> 1880 [] tok = "x1742" -> 1742
      [] OTHER -> 1

RECURSIVE StrLen(_)
StrLen(t) == IF t = << >> THEN 0 ELSE TokenLen(Head(t)) + StrLen(Tail(t))

\* decimal digits of a block number or a chat id
IndexLen(i) == IF i >= 10 THEN 2 ELSE 1

\* characters of the block format_leads_for_admin renders for the i-th lead:
\* "{i}. {created_at}\n", the labels of the six lines after it (the first
\* five with their newline) and the values
BlockLen(i, lead) ==
    LET fmt == IndexLen(i) + 3 + 12 + 9 + 11 + 13 + 14 + 10
        user == IF lead.username = NoneVal \/ lead.username = << >>
                THEN 0 ELSE 4 + StrLen(lead.username)
    IN fmt + StrLen(lead.created_at) + StrLen(lead.service) + StrLen(lead.name)
           + StrLen(lead.city) + StrLen(lead.contact) + StrLen(lead.details)
           + IndexLen(lead.tg_id) + user

\* chunk budget of bot.py's format_leads_for_admin
ChunkBudget == 4000

\* mutant of Pack: the two characters of the separator are not counted
RECURSIVE PackIgnoringSeparator(_, _, _, _, _)
PackIgnoringSeparator(lens, i, cur, curlen, chunks) ==
    IF i > Len(lens) THEN (IF cur = << >> THEN chunks ELSE Append(chunks, cur))
    ELSE IF cur = << >> THEN PackIgnoringSeparator(lens, i + 1, <<i>>, lens[i], chunks)
    ELSE IF curlen + lens[i] > ChunkBudget
         THEN PackIgnoringSeparator(lens, i + 1, <<i>>, lens[i], Append(chunks, cur))
         ELSE PackIgnoringSeparator(lens, i + 1, Append(cur, i), curlen + lens[i], chunks)

\* mutant of Pack: every block is a chunk of its own
PackOnePerChunk(lens, i, cur, curlen, chunks) ==
    [k \in 1..Len(lens) |-> <<k>>]

\* the packing loop over parts i..n: `cur` is the current chunk (block
\* numbers), `curlen` its length in characters
RECURSIVE Pack(_, _, _, _, _)
Pack(lens, i, cur, curlen, chunks) ==
    IF i > Len(lens) THEN (IF cur = << >> THEN chunks ELSE Append(chunks, cur))
    ELSE IF cur = << >> THEN Pack(lens, i + 1, <<i>>, lens[i], chunks)
    ELSE IF curlen + 2 + lens[i] > ChunkBudget
         THEN Pack(lens, i + 1, <<i>>, lens[i], Append(chunks, cur))
         ELSE Pack(lens, i + 1, Append(cur, i), curlen + 2 + lens[i], chunks)

\* format_leads_for_admin: the chunks, each the numbers of the blocks in it
format_leads_for_admin(leads) ==
    Pack([i \in 1..Len(leads) |-> BlockLen(i, leads[i])], 1, << >>, 0, << >>)

\* chunk budget of leads.py's format_leads_for_admin
LeadsPyBudget == 3900

\* characters of the item leads.py renders for the i-th lead: the header
\* "<b>{i}. {service}</b>", the line "<i>Создано:</i> {created_at}" unless
\* created_at is empty, and format_lead_summary(lead, include_meta=False),
\* whose last line (details) is dropped when details is None
leads_BlockLen(i, lead) ==
    LET header == 3 + IndexLen(i) + 2 + StrLen(lead.service) + 4
        time_line == IF lead.created_at = << >> THEN 0
                     ELSE 1 + 16 + StrLen(lead.created_at)
        details == IF lead.details = NoneVal THEN 0 ELSE 1 + StrLen(lead.details)
        body == 25 + 1 + 15 + StrLen(lead.service) + 1 + 12 + StrLen(lead.name)
                + 1 + 14 + StrLen(lead.city) + 1 + 16 + StrLen(lead.contact)
                + 1 + 0 + 1 + 22 + details
    IN header + time_line + 1 + body

\* the packing loop of leads.py
RECURSIVE leads_Pack(_, _, _, _, _)
leads_Pack(lens, i, cur, curlen, chunks) ==
    IF i > Len(lens) THEN (IF cur = << >> THEN chunks ELSE Append(chunks, cur))
    ELSE IF cur = << >> THEN leads_Pack(lens, i + 1, <<i>>, lens[i], chunks)
    ELSE IF curlen + 2 + lens[i] > LeadsPyBudget
         THEN leads_Pack(lens, i + 1, <<i>>, lens[i], Append(chunks, cur))
         ELSE leads_Pack(lens, i + 1, Append(cur, i), curlen + 2 + lens[i], chunks)

\* leads.py's format_leads_for_admin
leads_format_leads_for_admin(leads) ==
    leads_Pack([i \in 1..Len(leads) |-> leads_BlockLen(i, leads[i])], 1, << >>, 0, << >>)

\* limit cmd_leads passes to load_last_leads
LeadsLimit == 10

------------------------------------------------------------------------------------------------------------------------------------------------------
(* Handlers.  `fail` is the number of the handler's outbound call that       *)
(* raises (0: none does); an exception ends the handler there.               *)
(*                                                                           *)
(* pass[s] is a history variable, not program state: the valid service       *)
(* selection that opened the session's current pass and the non-blank texts  *)
(* that followed it, each handled without an outbound call or the log write  *)
(* failing; << >> when no such pass is under way.  Its length is 5 right     *)
(* after the pass's details step, and any other update of s ends the pass.   *)

Init ==
    /\ state = [s \in Sessions |-> Idle]
    /\ data = [s \in Sessions |-> EmptyData]
    /\ file = NoFile
    /\ ADMIN_CHAT_ID \in {0, 1, 2}
    /\ out = << >>
    /\ read = FALSE
    /\ ev = NoUpdate
    /\ pass = [s \in Sessions |-> << >>]
    /\ lim = -1
    /\ res = NoResult
    /\ packed = NoPacked
    /\ tasks = {}

\* cmd_start: state.clear(); message.answer(...); set_state(choosing_service)
cmd_start(s, text, fail) ==
    /\ MessageRoute(state[s], text) = "cmd_start"
    /\ fail \in 0..1
    /\ data' = [data EXCEPT ![s] = EmptyData]
    /\ IF fail = 1
       THEN /\ out' = << >>
            /\ state' = [state EXCEPT ![s] = Idle]
       ELSE /\ out' = <<Msg(s, "welcome_services")>>
            /\ state' = [state EXCEPT ![s] = choosing_service]
    /\ read' = FALSE
    /\ ev' = Update(s, "message", text)
    /\ pass' = [pass EXCEPT ![s] = << >>]
    /\ UNCHANGED <<file, ADMIN_CHAT_ID, lim, res, packed, tasks>>

\* mutant of cmd_cancel: the storage is cleared for every chat
cmd_cancel_everyone(s, text, fail) ==
    /\ MessageRoute(state[s], text) = "cmd_cancel"
    /\ fail \in 0..1
    /\ data' = [b \in Sessions |-> EmptyData]
    /\ state' = [b \in Sessions |-> Idle]
    /\ out' = IF fail = 1 THEN << >> ELSE <<Msg(s, "cancelled")>>
    /\ read' = FALSE
    /\ ev' = Update(s, "message", text)
    /\ pass' = [pass EXCEPT ![s] = << >>]
    /\ UNCHANGED <<file, ADMIN_CHAT_ID, lim, res, packed, tasks>>

\* cmd_cancel: state.clear(); message.answer(...)
cmd_cancel(s, text, fail) ==
    /\ MessageRoute(state[s], text) = "cmd_cancel"
    /\ fail \in 0..1
    /\ data' = [data EXCEPT ![s] = EmptyData]
    /\ state' = [state EXCEPT ![s] = Idle]
    /\ out' = IF fail = 1 THEN << >> ELSE <<Msg(s, "cancelled")>>
    /\ read' = FALSE
    /\ ev' = Update(s, "message", text)
    /\ pass' = [pass EXCEPT ![s] = << >>]
    /\ UNCHANGED <<file, ADMIN_CHAT_ID, lim, res, packed, tasks>>

\* the payload names an entry of the catalog: int() parses it and it is in range
ValidSelection(cd) ==
    /\ StartsWithSvc(cd)
    /\ IntParses(Tail(cd))
    /\ 0 <= IntOf(Tail(cd)) /\ IntOf(Tail(cd)) < Len(SERVICE_OPTIONS)

\* process_service_callback: callback.answer() is call 1, message.answer call 2
process_service_callback(s, cd, fail) ==
    /\ CallbackRoute(state[s], cd) = "process_service_callback"
    /\ fail \in 0..2
    /\ read' = FALSE
    /\ ev' = Update(s, "callback", cd)
    /\ pass' = [pass EXCEPT ![s] = IF fail = 0 /\ ValidSelection(cd) THEN <<cd>> ELSE << >>]
    /\ UNCHANGED <<file, ADMIN_CHAT_ID, lim, res, packed, tasks>>
    /\ LET idx == ServiceIndex(cd) IN
       IF fail = 1
       THEN /\ out' = << >>
            /\ UNCHANGED <<state, data>>
       ELSE IF ~(0 <= idx /\ idx < Len(SERVICE_OPTIONS))
       THEN IF fail = 2
            THEN /\ out' = << >>
                 /\ UNCHANGED <<state, data>>
            ELSE /\ out' = <<Msg(s, "service_unknown")>>
                 /\ state' = [state EXCEPT ![s] = Idle]
                 /\ data' = [data EXCEPT ![s] = EmptyData]
       ELSE /\ data' = [data EXCEPT
                          ![s] = UpdateData(@, "service", SERVICE_OPTIONS[idx + 1])]
            /\ IF fail = 2
               THEN /\ out' = << >>
                    /\ UNCHANGED state
               ELSE /\ out' = <<Msg(s, "ask_name")>>
                    /\ state' = [state EXCEPT ![s] = getting_name]

\* the shape process_name, process_city and process_contact share:
\* update_data(key=stripped text); message.answer(prompt); set_state(next)
CollectField(s, text, fail, key, prompt, next) ==
    /\ fail \in 0..1
    /\ data' = [data EXCEPT ![s] = UpdateData(@, key, TextOrEmptyStripped(text))]
    /\ IF fail = 1
       THEN /\ out' = << >>
            /\ UNCHANGED state
       ELSE /\ out' = <<Msg(s, prompt)>>
            /\ state' = [state EXCEPT ![s] = next]
    /\ read' = FALSE
    /\ ev' = Update(s, "message", text)
    /\ pass' = [pass EXCEPT
                  ![s] = IF /\ fail = 0 /\ Len(@) \in 1..3
                            /\ TextOrEmptyStripped(text) # << >>
                         THEN Append(@, text) ELSE << >>]
    /\ UNCHANGED <<file, ADMIN_CHAT_ID, lim, res, packed, tasks>>

process_name(s, text, fail) ==
    /\ MessageRoute(state[s], text) = "process_name"
    /\ CollectField(s, text, fail, "name", "ask_city", getting_city)

process_city(s, text, fail) ==
    /\ MessageRoute(state[s], text) = "process_city"
    /\ CollectField(s, text, fail, "city", "ask_contact", getting_contact)

\* the follow-up question process_contact picks by the stored service
DetailsQuestion(service) ==
    IF service = SERVICE_OPTIONS[1] THEN "ask_details_import"
    ELSE IF service = SERVICE_OPTIONS[2] THEN "ask_details_tuning"
    ELSE IF service = SERVICE_OPTIONS[3] THEN "ask_details_tyres"
    ELSE IF service = SERVICE_OPTIONS[4] THEN "ask_details_detailing"
    ELSE "ask_details_free"

process_contact(s, text, fail) ==
    /\ MessageRoute(state[s], text) = "process_contact"
    /\ CollectField(s, text, fail, "contact",
                    DetailsQuestion(Get(data[s], "service")), getting_details)

\* mutant of process_details: save_lead_to_file lets the exception of a
\* failed write out, which ends the handler
process_details_write_raises(s, text, fail, write_ok, forward_ok) ==
    /\ MessageRoute(state[s], text) = "process_details"
    /\ fail \in 0..2
    /\ write_ok => Len(file.lines) < MaxFile
    /\ forward_ok \/ ADMIN_CHAT_ID # 0
    /\ LET d == UpdateData(data[s], "details", TextOrEmptyStripped(text))
           lead == Lead(d, s)
           forwarded == IF ADMIN_CHAT_ID # 0 /\ forward_ok
                        THEN <<Msg(ADMIN_CHAT_ID, "summary")>> ELSE << >>
       IN /\ file' = save_lead_to_file(file, lead, write_ok)
          /\ IF fail = 1 \/ ~write_ok
             THEN /\ out' = << >>
                  /\ data' = [data EXCEPT ![s] = d]
                  /\ UNCHANGED state
             ELSE /\ out' = <<Msg(s, "thanks_summary")>> \o forwarded
                            \o (IF fail = 2 THEN << >> ELSE <<Msg(s, "start_again")>>)
                  /\ data' = [data EXCEPT ![s] = EmptyData]
                  /\ state' = [state EXCEPT ![s] = Idle]
    /\ read' = FALSE
    /\ ev' = Update(s, "message", text)
    /\ pass' = [pass EXCEPT
                  ![s] = IF /\ Len(@) = 4 /\ fail = 0 /\ write_ok
                            /\ TextOrEmptyStripped(text) # << >>
                         THEN Append(@, text) ELSE << >>]
    /\ UNCHANGED <<ADMIN_CHAT_ID, lim, res, packed, tasks>>

\* mutant of process_details: the exception of a failed forward is not
\* caught, which ends the handler after the summary
process_details_forward_raises(s, text, fail, write_ok, forward_ok) ==
    /\ MessageRoute(state[s], text) = "process_details"
    /\ fail \in 0..2
    /\ write_ok => Len(file.lines) < MaxFile
    /\ forward_ok \/ ADMIN_CHAT_ID # 0
    /\ LET d == UpdateData(data[s], "details", TextOrEmptyStripped(text))
           lead == Lead(d, s)
           forwarded == IF ADMIN_CHAT_ID # 0 /\ forward_ok
                        THEN <<Msg(ADMIN_CHAT_ID, "summary")>> ELSE << >>
       IN /\ file' = save_lead_to_file(file, lead, write_ok)
          /\ IF fail = 1
             THEN /\ out' = << >>
                  /\ data' = [data EXCEPT ![s] = d]
                  /\ UNCHANGED state
             ELSE IF ADMIN_CHAT_ID # 0 /\ ~forward_ok
             THEN /\ out' = <<Msg(s, "thanks_summary")>>
                  /\ data' = [data EXCEPT ![s] = d]
                  /\ UNCHANGED state
             ELSE /\ out' = <<Msg(s, "thanks_summary")>> \o forwarded
                            \o (IF fail = 2 THEN << >> ELSE <<Msg(s, "start_again")>>)
                  /\ data' = [data EXCEPT ![s] = EmptyData]
                  /\ state' = [state EXCEPT ![s] = Idle]
    /\ read' = FALSE
    /\ ev' = Update(s, "message", text)
    /\ pass' = [pass EXCEPT
                  ![s] = IF /\ Len(@) = 4 /\ fail = 0 /\ write_ok
                            /\ TextOrEmptyStripped(text) # << >>
                         THEN Append(@, text) ELSE << >>]
    /\ UNCHANGED <<ADMIN_CHAT_ID, lim, res, packed, tasks>>

\* process_details: update_data, build the lead, save_lead_to_file, answer the
\* summary (call 1), forward to the admin when ADMIN_CHAT_ID is set (its
\* failure is caught), state.clear(), answer the closing line (call 2).
\* A write succeeds only while the disk has room for the line.
process_details(s, text, fail, write_ok, forward_ok) ==
    /\ MessageRoute(state[s], text) = "process_details"
    /\ fail \in 0..2
    /\ write_ok => Len(file.lines) < MaxFile
    /\ forward_ok \/ ADMIN_CHAT_ID # 0
    /\ LET d == UpdateData(data[s], "details", TextOrEmptyStripped(text))
           lead == Lead(d, s)
           forwarded == IF ADMIN_CHAT_ID # 0 /\ forward_ok
                        THEN <<Msg(ADMIN_CHAT_ID, "summary")>> ELSE << >>
       IN /\ file' = save_lead_to_file(file, lead, write_ok)
          /\ IF fail = 1
             THEN /\ out' = << >>
                  /\ data' = [data EXCEPT ![s] = d]
                  /\ UNCHANGED state
             ELSE /\ out' = <<Msg(s, "thanks_summary")>> \o forwarded
                            \o (IF fail = 2 THEN << >> ELSE <<Msg(s, "start_again")>>)
                  /\ data' = [data EXCEPT ![s] = EmptyData]
                  /\ state' = [state EXCEPT ![s] = Idle]
    /\ read' = FALSE
    /\ ev' = Update(s, "message", text)
    /\ pass' = [pass EXCEPT
                  ![s] = IF /\ Len(@) = 4 /\ fail = 0 /\ write_ok
                            /\ TextOrEmptyStripped(text) # << >>
                         THEN Append(@, text) ELSE << >>]
    /\ UNCHANGED <<ADMIN_CHAT_ID, lim, res, packed, tasks>>

\* the messages cmd_leads answers for a non-empty result: header is call 1,
\* the chunks are the calls after it
LeadsAnswers(s, chunks, fail) ==
    IF fail = 1 THEN << >>
    ELSE <<Msg(s, "leads_header")>>
         \o [i \in 1..(IF fail = 2 THEN 0 ELSE Len(chunks)) |-> Msg(s, "leads_chunk")]

\* cmd_leads: refuse unless the sender is the configured admin; else read the
\* log and answer the formatted chunks
cmd_leads(s, text, fail) ==
    /\ MessageRoute(state[s], text) = "cmd_leads"
    /\ fail \in 0..2
    /\ IF ADMIN_CHAT_ID = 0 \/ s # ADMIN_CHAT_ID
       THEN /\ fail \in 0..1
            /\ out' = IF fail = 1 THEN << >> ELSE <<Msg(s, "admin_only")>>
            /\ read' = FALSE
       ELSE LET leads == load_last_leads(file, LeadsLimit) IN
            /\ read' = TRUE
            /\ IF leads = << >>
               THEN /\ fail \in 0..1
                    /\ out' = IF fail = 1 THEN << >> ELSE <<Msg(s, "no_leads")>>
               ELSE out' = LeadsAnswers(s, format_leads_for_admin(leads), fail)
    /\ ev' = Update(s, "message", text)
    /\ pass' = [pass EXCEPT ![s] = << >>]
    /\ UNCHANGED <<state, data, file, ADMIN_CHAT_ID, lim, res, packed, tasks>>

\* a message no handler's filters accept
unhandled_message(s, text) ==
    /\ MessageRoute(state[s], text) = "unhandled"
    /\ out' = << >>
    /\ read' = FALSE
    /\ ev' = Update(s, "message", text)
    /\ pass' = [pass EXCEPT ![s] = << >>]
    /\ UNCHANGED <<state, data, file, ADMIN_CHAT_ID, lim, res, packed, tasks>>

\* a callback query the only callback handler's filters reject
unhandled_callback(s, cd) ==
    /\ CallbackRoute(state[s], cd) = "unhandled"
    /\ out' = << >>
    /\ read' = FALSE
    /\ ev' = Update(s, "callback", cd)
    /\ pass' = [pass EXCEPT ![s] = << >>]
    /\ UNCHANGED <<state, data, file, ADMIN_CHAT_ID, lim, res, packed, tasks>>

\* one update of a session in S handled to the end.  The environment sends
\* the callback data of P and, in any phase, the texts of T; those of TC
\* (never /start or /cancel) it sends only while no field is being collected,
\* where they reach cmd_leads or no handler at all
Handle(S, T, TC, P) ==
    \E s \in S :
        \/ \E text \in T, fail \in 0..2 : cmd_start(s, text, fail)
        \/ \E text \in T, fail \in 0..2 : cmd_cancel(s, text, fail)
        \/ \E text \in T, fail \in 0..2 : process_name(s, text, fail)
        \/ \E text \in T, fail \in 0..2 : process_city(s, text, fail)
        \/ \E text \in T, fail \in 0..2 : process_contact(s, text, fail)
        \/ \E text \in T, fail \in 0..2, write_ok \in BOOLEAN, forward_ok \in BOOLEAN :
              process_details(s, text, fail, write_ok, forward_ok)
        \/ \E text \in T \cup TC, fail \in 0..2 : cmd_leads(s, text, fail)
        \/ \E text \in T \cup TC : unhandled_message(s, text)
        \/ \E cd \in P, fail \in 0..2 : process_service_callback(s, cd, fail)
        \/ \E cd \in P : unhandled_callback(s, cd)

\* the dispatcher handles a message with this text for s, every outbound
\* call and the log write succeeding
MessageHandled(s, text) ==
    \/ cmd_start(s, text, 0)
    \/ cmd_cancel(s, text, 0)
    \/ process_name(s, text, 0)
    \/ process_city(s, text, 0)
    \/ process_contact(s, text, 0)
    \/ \E forward_ok \in BOOLEAN : process_details(s, text, 0, TRUE, forward_ok)
    \/ cmd_leads(s, text, 0)
    \/ unhandled_message(s, text)

\* the dispatcher handles a callback query with this data for s, every
\* outbound call succeeding
CallbackHandled(s, cd) ==
    \/ process_service_callback(s, cd, 0)
    \/ unhandled_callback(s, cd)

\* one user; /leads is sent only while no field is being collected
Next == Handle({1}, Texts \ {<<"/leads">>}, {<<"/leads">>}, BasicPayloads)

Spec == Init /\ [][Next]_vars

\* the same with every payload of Payloads
NextWide == Handle({1}, Texts \ {<<"/leads">>}, {<<"/leads">>}, Payloads)

SpecWide == Init /\ [][NextWide]_vars

\* one user; the texts are the commands and a message without text, and
\* /leads is sent in any phase
NextLeads == Handle({1}, Commands \cup {NoneVal}, {}, BasicPayloads)

SpecLeads == Init /\ [][NextLeads]_vars

\* two users, each with a text and a service of their own; /leads is sent
\* only while no field is being collected
TextsOf(s) == { IF s = 1 THEN <<"a">> ELSE <<"b">>, <<"/start">>, <<"/cancel">> }

PayloadsOf(s) == { IF s = 1 THEN <<"svc:", "4">> ELSE <<"svc:", "0">> }

NextTwo ==
    \/ Handle({1}, TextsOf(1), {<<"/leads">>}, PayloadsOf(1))
    \/ Handle({2}, TextsOf(2), {<<"/leads">>}, PayloadsOf(2))

SpecTwo == Init /\ [][NextTwo]_vars

------------------------------------------------------------------------------
(* Handlers as the tasks start_polling runs them.  Every update is handled   *)
(* in a task of its own and the dispatcher has no events isolation, so a     *)
(* task that awaits an outbound call is suspended while other updates, of    *)
(* the same chat too, are dispatched.  Awaits on the MemoryStorage do not    *)
(* suspend.  A step is the stretch of a handler between two outbound calls;  *)
(* in this specification every outbound call to the requester succeeds.      *)

\* a suspended task of session s: it awaits the delivery of msg and goes on
\* at pc; next is the state a set_state at pc sets
Task(id, s, inp, pc, next, msg) ==
    [id |-> id, s |-> s, inp |-> inp, pc |-> pc, next |-> next, msg |-> msg]

FreeId == CHOOSE i \in 1..MaxTasks : \A t \in tasks : t.id # i

\* the dispatcher creates the task and runs it to its first outbound call
Suspend(s, inp, pc, next, msg) ==
    /\ Cardinality(tasks) < MaxTasks
    /\ tasks' = tasks \cup {Task(FreeId, s, inp, pc, next, msg)}
    /\ out' = << >>
    /\ UNCHANGED <<ADMIN_CHAT_ID, read, pass, lim, res, packed>>

\* cmd_start up to `await message.answer`: state.clear().  The user sends
\* /start to open the one pass this specification follows, and may repeat it
\* at once.
begin_cmd_start(s, text) ==
    /\ ev \in {NoUpdate, Update(s, "message", text)}
    /\ MessageRoute(state[s], text) = "cmd_start"
    /\ state' = [state EXCEPT ![s] = Idle]
    /\ data' = [data EXCEPT ![s] = EmptyData]
    /\ ev' = Update(s, "message", text)
    /\ Suspend(s, text, "set_state", choosing_service, "welcome_services")
    /\ UNCHANGED file

\* cmd_cancel up to `await message.answer`: state.clear()
begin_cmd_cancel(s, text) ==
    /\ MessageRoute(state[s], text) = "cmd_cancel"
    /\ state' = [state EXCEPT ![s] = Idle]
    /\ data' = [data EXCEPT ![s] = EmptyData]
    /\ ev' = Update(s, "message", text)
    /\ Suspend(s, text, "end", Idle, "cancelled")
    /\ UNCHANGED file

\* process_service_callback up to `await callback.answer()`
begin_process_service_callback(s, cd) ==
    /\ CallbackRoute(state[s], cd) = "process_service_callback"
    /\ ev' = Update(s, "callback", cd)
    /\ Suspend(s, cd, "parse", Idle, "callback_answer")
    /\ UNCHANGED <<state, data, file>>

\* process_name, process_city, process_contact up to `await message.answer`:
\* update_data(key=stripped text)
begin_collect(s, text) ==
    LET h == MessageRoute(state[s], text)
        d == UpdateData(data[s],
                        CASE h = "process_name" -> "name"
                          [] h = "process_city" -> "city"
                          [] h = "process_contact" -> "contact",
                        TextOrEmptyStripped(text))
    IN /\ h \in {"process_name", "process_city", "process_contact"}
       /\ data' = [data EXCEPT ![s] = d]
       /\ ev' = Update(s, "message", text)
       /\ CASE h = "process_name" ->
                 Suspend(s, text, "set_state", getting_city, "ask_city")
            [] h = "process_city" ->
                 Suspend(s, text, "set_state", getting_contact, "ask_contact")
            [] h = "process_contact" ->
                 Suspend(s, text, "set_state", getting_details,
                         DetailsQuestion(Get(d, "service")))
       /\ UNCHANGED <<state, file>>

\* process_details up to the `await message.answer` of the summary:
\* update_data, get_data, build the lead, save_lead_to_file
begin_process_details(s, text, write_ok) ==
    /\ MessageRoute(state[s], text) = "process_details"
    /\ write_ok => Len(file.lines) < MaxTaskFile
    /\ LET d == UpdateData(data[s], "details", TextOrEmptyStripped(text)) IN
       /\ data' = [data EXCEPT ![s] = d]
       /\ file' = save_lead_to_file(file, Lead(d, s), write_ok)
    /\ ev' = Update(s, "message", text)
    /\ Suspend(s, text, "summary", Idle, "thanks_summary")
    /\ UNCHANGED state

\* an update no handler's filters accept: its task ends at once
drop_update(s, kind, inp) ==
    /\ \/ kind = "message" /\ MessageRoute(state[s], inp) \in {"unhandled", "cmd_leads"}
       \/ kind = "callback" /\ CallbackRoute(state[s], inp) = "unhandled"
    /\ ev # Update(s, kind, inp)
    /\ ev' = Update(s, kind, inp)
    /\ out' = << >>
    /\ UNCHANGED <<state, data, file, ADMIN_CHAT_ID, read, pass, lim, res, packed, tasks>>

\* the outbound call the task numbered id awaits returns (the forward to the
\* admin may raise instead, which is caught) and the task runs to its next
\* outbound call or to its end
resume(id, forward_ok) ==
    LET t == CHOOSE x \in tasks : x.id = id
        s == t.s
        idx == ServiceIndex(t.inp)
        service == SERVICE_OPTIONS[idx + 1]
        goes_on(pc, next, msg) == (tasks \ {t}) \cup {Task(t.id, s, t.inp, pc, next, msg)}
    IN
    /\ \E x \in tasks : x.id = id
    /\ forward_ok \/ t.pc = "forward"
    /\ ev' = Update(s, "resume", t.inp)
    /\ out' = IF t.pc = "forward" /\ ~forward_ok THEN << >>
              ELSE <<Msg(IF t.pc = "forward" THEN ADMIN_CHAT_ID ELSE s, t.msg)>>
    /\ UNCHANGED <<file, ADMIN_CHAT_ID, read, pass, lim, res, packed>>
    /\ CASE t.pc = "set_state" ->
              /\ state' = [state EXCEPT ![s] = t.next]
              /\ tasks' = tasks \ {t}
              /\ UNCHANGED data
         [] t.pc = "end" ->
              /\ tasks' = tasks \ {t}
              /\ UNCHANGED <<state, data>>
         [] t.pc = "clear" ->
              /\ state' = [state EXCEPT ![s] = Idle]
              /\ data' = [data EXCEPT ![s] = EmptyData]
              /\ tasks' = tasks \ {t}
         [] t.pc = "parse" ->
              IF ~(0 <= idx /\ idx < Len(SERVICE_OPTIONS))
              THEN /\ tasks' = goes_on("clear", Idle, "service_unknown")
                   /\ UNCHANGED <<state, data>>
              ELSE /\ data' = [data EXCEPT ![s] = UpdateData(@, "service", service)]
                   /\ tasks' = goes_on("set_state", getting_name, "ask_name")
                   /\ UNCHANGED state
         [] t.pc = "summary" ->
              IF ADMIN_CHAT_ID # 0
              THEN /\ tasks' = goes_on("forward", Idle, "summary")
                   /\ UNCHANGED <<state, data>>
              ELSE /\ state' = [state EXCEPT ![s] = Idle]
                   /\ data' = [data EXCEPT ![s] = EmptyData]
                   /\ tasks' = goes_on("end", Idle, "start_again")
         [] t.pc = "forward" ->
              /\ state' = [state EXCEPT ![s] = Idle]
              /\ data' = [data EXCEPT ![s] = EmptyData]
              /\ tasks' = goes_on("end", Idle, "start_again")

\* one user who sends /start, /cancel, a text, and presses the last button of
\* the keyboard or one just past the catalog
NextTasks ==
    \/ begin_cmd_start(1, <<"/start">>)
    \/ begin_cmd_cancel(1, <<"/cancel">>)
    \/ \E cd \in {<<"svc:", "4">>, <<"svc:", "5">>} : begin_process_service_callback(1, cd)
    \/ begin_collect(1, <<"a">>)
    \/ \E write_ok \in BOOLEAN : begin_process_details(1, <<"a">>, write_ok)
    \/ drop_update(1, "message", <<"a">>)
    \/ drop_update(1, "callback", <<"svc:", "4">>)
    \/ \E id \in 1..MaxTasks, forward_ok \in BOOLEAN : resume(id, forward_ok)

SpecTasks == Init /\ [][NextTasks]_vars

------------------------------------------------------------------------------
(* The lead log on its own: direct calls of save_lead_to_file and            *)
(* load_last_leads on logs of up to MaxLines lines.                          *)

\* two leads as process_details builds them
SampleLeads ==
    { Lead([k \in {"service", "name", "city", "contact", "details"} |->
              IF k = "service" THEN SERVICE_OPTIONS[i] ELSE <<"a">>], i) : i \in {1, 2} }

StoreLines == {JsonLine(l) : l \in SampleLeads} \cup {BlankLine, GarbageLine}

RECURSIVE SeqsUpTo(_, _)
SeqsUpTo(S, n) ==
    IF n = 0 THEN {<< >>}
    ELSE LET shorter == SeqsUpTo(S, n - 1) IN
         shorter \cup {Append(q, x) : q \in shorter, x \in S}

InitStore ==
    /\ state = [s \in Sessions |-> Idle]
    /\ data = [s \in Sessions |-> EmptyData]
    /\ file \in {NoFile} \cup
                {[exists |-> TRUE, lines |-> q] : q \in SeqsUpTo(StoreLines, MaxLines)}
    /\ ADMIN_CHAT_ID = 0
    /\ out = << >>
    /\ read = FALSE
    /\ ev = NoUpdate
    /\ pass = [s \in Sessions |-> << >>]
    /\ lim = -1
    /\ res = NoResult
    /\ packed = NoPacked
    /\ tasks = {}

\* save_lead_to_file(lead)
StoreAppend(lead, write_ok) ==
    /\ write_ok => Len(file.lines) < MaxLines
    /\ file' = save_lead_to_file(file, lead, write_ok)
    /\ lim' = -1
    /\ res' = NoResult
    /\ UNCHANGED <<state, data, ADMIN_CHAT_ID, out, read, ev, pass, packed, tasks>>

\* load_last_leads(limit=limit)
StoreLoad(limit) ==
    /\ lim' = limit
    /\ res' = [bot |-> load_last_leads(file, limit),
               lib |-> leads_load_last_leads(file, limit),
               raised |-> load_last_leads_raises(file)]
    /\ UNCHANGED <<state, data, file, ADMIN_CHAT_ID, out, read, ev, pass, packed, tasks>>

NextStore ==
    \/ \E lead \in SampleLeads, write_ok \in BOOLEAN : StoreAppend(lead, write_ok)
    \/ \E limit \in 0..MaxLimit : StoreLoad(limit)

SpecStore == InitStore /\ [][NextStore]_vars

------------------------------------------------------------------------------
(* The formatter on its own: format_leads_for_admin called on lists of up to *)
(* MaxBlocks leads.                                                          *)

\* details of one character, and details that bring a block to the half of
\* each budget and one character past it
SampleDetails ==
    { <<"a">>, <<"x1880">>, <<"x1880", "a">>, <<"x1742">>, <<"x1742", "a">> }

ChunkLeads ==
    { Lead([k \in {"service", "name", "city", "contact", "details"} |->
              IF k = "service" THEN SERVICE_OPTIONS[1]
              ELSE IF k = "details" THEN d ELSE <<"a">>], 2) : d \in SampleDetails }

InitChunks ==
    /\ state = [s \in Sessions |-> Idle]
    /\ data = [s \in Sessions |-> EmptyData]
    /\ file = NoFile
    /\ ADMIN_CHAT_ID = 0
    /\ out = << >>
    /\ read = FALSE
    /\ ev = NoUpdate
    /\ pass = [s \in Sessions |-> << >>]
    /\ lim = -1
    /\ res = NoResult
    /\ packed \in {[NoPacked EXCEPT !.leads = q] : q \in SeqsUpTo(ChunkLeads, MaxBlocks)}
    /\ tasks = {}

\* format_leads_for_admin(leads)
Format ==
    /\ ~packed.done
    /\ packed' = [done |-> TRUE,
                  leads |-> packed.leads,
                  bot |-> format_leads_for_admin(packed.leads),
                  lib |-> leads_format_leads_for_admin(packed.leads)]
    /\ UNCHANGED <<state, data, file, ADMIN_CHAT_ID, out, read, ev, pass, lim, res, tasks>>

NextChunks == Format

SpecChunks == InitChunks /\ [][NextChunks]_vars

------------------------------------------------------------------------------
(* Claims *)

Last(q) == q[Len(q)]

RequiredFields == {"service", "name", "city", "contact", "details"}

\* the log after the step is the log before it plus one line at the end
GrewByOne ==
    /\ file'.exists
    /\ Len(file'.lines) = Len(file.lines) + 1
    /\ SubSeq(file'.lines, 1, Len(file.lines)) = file.lines

\* the phase a pass is in after its k-th input
PhaseAfter(k) ==
    CASE k = 1 -> getting_name [] k = 2 -> getting_city
      [] k = 3 -> getting_contact [] k = 4 -> getting_details

\* C1: a session in ChoosingService that receives a valid service selection
\* and then four non-blank texts, every outbound call and the log write
\* succeeding, appends exactly one lead to the log, at the details step and
\* not before: the lead's service is the catalog entry at the selected index
\* and its name, city, contact and details are the four texts stripped; the
\* session is Idle with no data afterwards.
C1_PassAppendsOneLead ==
    [][\A s \in Sessions :
         /\ (pass'[s] # pass[s] /\ Len(pass'[s]) \in 1..4)
            => /\ file' = file
               /\ state'[s] = PhaseAfter(Len(pass'[s]))
         /\ \A text \in Texts, fail \in {0, 2}, forward_ok \in BOOLEAN :
              ( /\ Len(pass[s]) = 4
                /\ TextOrEmptyStripped(text) # << >>
                /\ process_details(s, text, fail, TRUE, forward_ok) )
              => /\ GrewByOne
                 /\ Last(file'.lines).kind = "json"
                 /\ LET lead == Last(file'.lines).obj IN
                    /\ lead.service = SERVICE_OPTIONS[IntOf(Tail(pass[s][1])) + 1]
                    /\ lead.name = Strip(pass[s][2])
                    /\ lead.city = Strip(pass[s][3])
                    /\ lead.contact = Strip(pass[s][4])
                    /\ lead.details = Strip(text)
                 /\ state'[s] = Idle
                 /\ data'[s] = EmptyData
      ]_vars

\* C1 witness: a pass was just completed with the last catalog entry and the
\* text " a " in every field, and its lead is in the log
C1_Witness ==
    /\ Len(pass[1]) = 5
    /\ pass[1][1] = <<"svc:", "4">>
    /\ pass[1][2] = <<" ", "a", " ">>
    /\ state[1] = Idle
    /\ Len(file.lines) = 1
    /\ file.lines[1].obj.service = <<"consult">>
    /\ file.lines[1].obj.name = <<"a">>

\* C2: a text that is empty after stripping (or a message without text),
\* received in a collection phase, leaves the phase and the data as they were
\* and appends nothing to the log.
C2_BlankRejected ==
    [][\A s \in Sessions, text \in Texts :
         ( /\ state[s] \in Collecting
           /\ TextOrEmptyStripped(text) = << >>
           /\ MessageHandled(s, text) )
         => /\ state'[s] = state[s]
            /\ data'[s] = data[s]
            /\ file' = file
      ]_vars

\* C3: in ChoosingService a svc: payload whose index is out of the catalog's
\* range or is no integer leaves the phase ChoosingService and the data as
\* they were.
C3_BadSelectionKeepsPhase ==
    [][\A s \in Sessions, cd \in Payloads :
         ( /\ state[s] = choosing_service
           /\ StartsWithSvc(cd)
           /\ ~ValidSelection(cd)
           /\ CallbackHandled(s, cd) )
         => /\ state'[s] = choosing_service
            /\ data'[s] = data[s]
      ]_vars

\* a field of a stored record is present and non-blank
FieldFilled(v) == v # NoneVal /\ Strip(v) # << >>

\* C4: every record in the log has service, name, city, contact and details
\* present and non-blank.
C4_StoredLeadsComplete ==
    \A i \in 1..Len(file.lines) :
        file.lines[i].kind = "json" =>
            \A k \in RequiredFields : FieldFilled(file.lines[i].obj[k])

\* C5: a Cancel event, the /cancel command or the nav:cancel navigation
\* payload, received in any phase clears the data, makes the phase Idle and
\* leaves the log as it was.
C5_CancelResets ==
    [][\A s \in Sessions :
         ( \/ \E fail \in 0..1 : cmd_cancel(s, <<"/cancel">>, fail)
           \/ CallbackHandled(s, <<"nav:", "cancel">>) )
         => /\ data'[s] = EmptyData
            /\ state'[s] = Idle
            /\ file' = file
      ]_vars

\* C6: a /start received in any phase ends with no data and the phase
\* ChoosingService, whether or not the prompt is delivered, and appends
\* nothing to the log.
C6_StartResets ==
    [][\A s \in Sessions, fail \in 0..1 :
         cmd_start(s, <<"/start">>, fail)
         => /\ data'[s] = EmptyData
            /\ state'[s] = choosing_service
            /\ file' = file
      ]_vars

\* C7: the navigation payload nav:services received in a collection phase
\* clears the data and makes the phase ChoosingService.
C7_BackToServices ==
    [][\A s \in Sessions :
         ( /\ state[s] \in Collecting
           /\ CallbackHandled(s, <<"nav:", "services">>) )
         => /\ data'[s] = EmptyData
            /\ state'[s] = choosing_service
      ]_vars

\* C8: the log is read only for a /leads whose sender is the configured
\* admin; any other /leads, in whatever phase, is answered with the refusal
\* alone, reads nothing and leaves the session's phase and data as they were.
C8_LeadsOnlyForAdmin ==
    [][\A s \in Sessions :
         MessageHandled(s, <<"/leads">>)
         => /\ read' => (ADMIN_CHAT_ID # 0 /\ s = ADMIN_CHAT_ID)
            /\ (ADMIN_CHAT_ID = 0 \/ s # ADMIN_CHAT_ID)
               => /\ out' = <<Msg(s, "admin_only")>>
                  /\ ~read'
                  /\ state'[s] = state[s]
                  /\ data'[s] = data[s]
      ]_vars

\* C9: free text received while the phase is Idle or ChoosingService is
\* answered with the service-selection prompt and leaves phase and data as
\* they were.
C9_FreeTextReprompts ==
    [][\A s \in Sessions, text \in FreeTexts :
         ( /\ state[s] \in {Idle, choosing_service}
           /\ TextOrEmptyStripped(text) # << >>
           /\ MessageHandled(s, text) )
         => /\ out' = <<Msg(s, "welcome_services")>>
            /\ state'[s] = state[s]
            /\ data'[s] = data[s]
      ]_vars

Min(a, b) == IF a < b THEN a ELSE b

\* the k most recently appended of the records, oldest first
MostRecent(records, k) ==
    SubSeq(records, Len(records) - Min(k, Len(records)) + 1, Len(records))

\* C10: for every limit >= 0, load_last_leads returns exactly the
\* min(limit, n) most recently appended of the log's n records, oldest first,
\* and so never more than limit records.
C10_LastN ==
    lim >= 0 =>
        LET records == ParseLines(file.lines) IN
        /\ res.bot = MostRecent(records, lim)
        /\ res.lib = MostRecent(records, lim)
        /\ Len(res.bot) <= lim
        /\ Len(res.lib) <= lim

\* no line of the log is a record: the log is missing, empty, or holds only
\* blank and undecodable lines
NoValidRecord == \A i \in 1..Len(file.lines) : file.lines[i].kind # "json"

\* C11: load_last_leads on a log that does not exist, is empty, or holds only
\* blank or undecodable lines returns the empty list and raises nothing.
C11_EmptyLogEmptyResult ==
    (lim >= 0 /\ NoValidRecord) =>
        /\ res.bot = << >>
        /\ res.lib = << >>
        /\ ~res.raised

\* C11 witnesses: a read of a log of one undecodable and one blank line, and
\* (second conjunct of the claim's case) the result it gave
C11_Witness ==
    /\ lim = 2
    /\ file.exists
    /\ file.lines = <<GarbageLine, BlankLine>>
    /\ res = NoResult

\* the records of the well-formed lines, in the order of the lines
RECURSIVE WellFormed(_)
WellFormed(lines) ==
    IF lines = << >> THEN << >>
    ELSE WellFormed(SubSeq(lines, 1, Len(lines) - 1))
         \o (IF Last(lines).kind = "json" THEN <<Last(lines).obj>> ELSE << >>)

\* C12: with malformed lines anywhere among the N well-formed ones,
\* load_last_leads with a limit of at least N returns exactly the N
\* well-formed records in their order in the log, and raises nothing.
C12_MalformedSkipped ==
    (lim >= 0 /\ file.exists /\ lim >= Len(WellFormed(file.lines))) =>
        /\ res.bot = WellFormed(file.lines)
        /\ res.lib = WellFormed(file.lines)
        /\ ~res.raised

\* C12 witness: an undecodable line between two records, both returned
C12_Witness ==
    /\ lim = 2
    /\ Len(file.lines) = 3
    /\ file.lines[1].kind = "json"
    /\ file.lines[2] = GarbageLine
    /\ file.lines[3].kind = "json"
    /\ file.lines[1] # file.lines[3]
    /\ res.bot = <<file.lines[1].obj, file.lines[3].obj>>
    /\ res.lib = res.bot

\* characters of blocks a..b of lens joined by "\n\n"
RECURSIVE JoinedLen(_, _, _)
JoinedLen(lens, a, b) ==
    IF a > b THEN 0
    ELSE IF a = b THEN lens[a]
    ELSE JoinedLen(lens, a, b - 1) + 2 + lens[b]

\* characters of a chunk: its blocks joined by "\n\n"
RECURSIVE ChunkLen(_, _)
ChunkLen(lens, chunk) ==
    IF chunk = << >> THEN 0
    ELSE IF Len(chunk) = 1 THEN lens[chunk[1]]
    ELSE ChunkLen(lens, SubSeq(chunk, 1, Len(chunk) - 1)) + 2 + lens[chunk[Len(chunk)]]

\* the block numbers of the chunks read in order
RECURSIVE Flatten(_)
Flatten(chunks) ==
    IF chunks = << >> THEN << >> ELSE Head(chunks) \o Flatten(Tail(chunks))

\* block lengths of the formatted leads, as bot.py and as leads.py render them
BotLens == [i \in 1..Len(packed.leads) |-> BlockLen(i, packed.leads[i])]
LibLens == [i \in 1..Len(packed.leads) |-> leads_BlockLen(i, packed.leads[i])]

\* chunks are within the budget and partition blocks 1..n in order
BudgetedPartition(lens, chunks, budget) ==
    (\A i \in 1..Len(lens) : lens[i] <= budget) =>
        /\ \A c \in 1..Len(chunks) :
             /\ chunks[c] # << >>
             /\ ChunkLen(lens, chunks[c]) <= budget
        /\ Flatten(chunks) = [i \in 1..Len(lens) |-> i]
        /\ (lens = << >> => chunks = << >>)

\* C13: for leads whose blocks each fit the budget, format_leads_for_admin
\* returns chunks none of which is longer than the budget and which hold every
\* block exactly once, in input order, the blocks of a chunk joined by a
\* blank line; no leads give no chunks.
C13_ChunksPartitionWithinBudget ==
    packed.done =>
        /\ BudgetedPartition(BotLens, packed.bot, ChunkBudget)
        /\ BudgetedPartition(LibLens, packed.lib, LeadsPyBudget)

\* C13 witness: two blocks of 1999 characters share a chunk of exactly 4000,
\* the block of 2000 after them starts the next chunk
C13_Witness ==
    /\ packed.done
    /\ Len(packed.leads) = 3
    /\ BotLens = <<1999, 1999, 2000>>
    /\ packed.bot = << <<1, 2>>, <<3>> >>
    /\ ChunkLen(BotLens, packed.bot[1]) = ChunkBudget

\* the cut sets that split blocks 1..n into consecutive groups each fitting
\* the budget when joined by blank lines; a cut at k ends a group with block k
FittingCuts(lens, budget) ==
    LET n == Len(lens) IN
    { C \in SUBSET (1..(n - 1)) :
        \A a \in 1..n, b \in 1..n :
            ( /\ a <= b
              /\ (a = 1 \/ (a - 1) \in C)
              /\ (b = n \/ b \in C)
              /\ \A k \in a..(b - 1) : k \notin C )
            => JoinedLen(lens, a, b) <= budget }

\* the least number of such groups
MinGroups(lens, budget) ==
    IF lens = << >> THEN 0
    ELSE LET sizes == {Cardinality(C) + 1 : C \in FittingCuts(lens, budget)}
         IN CHOOSE m \in sizes : \A k \in sizes : m <= k

\* C19: for blocks that each fit the budget, the number of chunks
\* format_leads_for_admin returns is the least number of consecutive groups
\* the blocks can be split into with every group, joined by blank lines,
\* within the budget.
C19_GreedyIsMinimal ==
    packed.done =>
        /\ (\A i \in 1..Len(BotLens) : BotLens[i] <= ChunkBudget)
           => Len(packed.bot) = MinGroups(BotLens, ChunkBudget)
        /\ (\A i \in 1..Len(LibLens) : LibLens[i] <= LeadsPyBudget)
           => Len(packed.lib) = MinGroups(LibLens, LeadsPyBudget)

\* C19 witness: four blocks where the choice of the cuts matters: the first
\* two fit together, the third fits with neither neighbour in bot.py
C19_Witness ==
    /\ packed.done
    /\ BotLens = <<120, 1999, 2000, 1999>>
    /\ packed.bot = << <<1, 2>>, <<3>>, <<4>> >>
    /\ Len(packed.lib) = 3

\* what process_details sends when its summary is delivered: the summary,
\* the forward when there is an admin and the forward succeeds, the closing
\* line unless its delivery raises
FinalizeAnswers(s, fail, forward_ok) ==
    <<Msg(s, "thanks_summary")>>
    \o (IF ADMIN_CHAT_ID # 0 /\ forward_ok THEN <<Msg(ADMIN_CHAT_ID, "summary")>> ELSE << >>)
    \o (IF fail = 2 THEN << >> ELSE <<Msg(s, "start_again")>>)

\* (In the formulas below a handler step of session s for the text `text`
\* is looked for only where ev' names that session and that text: every
\* handler records the update it handles in ev.)

\* C14: when the write of the log fails in process_details, nothing is raised
\* to the handler and the step completes as it does when the write succeeds:
\* the summary is sent to the requester, the data is cleared, the phase is
\* Idle; the log is left without the new record.
C14_WriteFailureSwallowed ==
    [][\A s \in Sessions \cap {ev'.s}, text \in Texts \cap {ev'.inp}, fail \in {0, 2},
          write_ok \in BOOLEAN, forward_ok \in BOOLEAN :
         process_details(s, text, fail, write_ok, forward_ok)
         => /\ out' = FinalizeAnswers(s, fail, forward_ok)
            /\ data'[s] = EmptyData
            /\ state'[s] = Idle
            /\ write_ok => GrewByOne
            /\ ~write_ok => file' = file
      ]_vars

\* C14 witness: a details text was answered with summary and closing line and
\* the session is Idle, yet the log was never created
C14_Witness ==
    /\ ev = Update(1, "message", <<" ", "a", " ">>)
    /\ out = <<Msg(1, "thanks_summary"), Msg(1, "start_again")>>
    /\ state[1] = Idle
    /\ data[1] = EmptyData
    /\ file = NoFile

\* positions of forwards to the admin among the messages of a step
Forwards(msgs) == {i \in 1..Len(msgs) : msgs[i].msg = "summary"}

\* C15: a summary is forwarded only in process_details, only when
\* ADMIN_CHAT_ID is set, to that chat, after save_lead_to_file was called and
\* after the summary was sent to the requester; when the forward fails the
\* lead stays appended, the data is cleared and the phase is Idle.
C15_ForwardAfterSaveAndSummary ==
    [][/\ Forwards(out') # {}
          => /\ ADMIN_CHAT_ID # 0
             /\ ev'.kind = "message"
             /\ state[ev'.s] = getting_details
             /\ out'[1] = Msg(ev'.s, "thanks_summary")
             /\ \A i \in Forwards(out') : i > 1 /\ out'[i].to = ADMIN_CHAT_ID
       /\ \A s \in Sessions \cap {ev'.s}, text \in Texts \cap {ev'.inp},
             fail \in {0, 2}, write_ok \in BOOLEAN :
            ( /\ ADMIN_CHAT_ID # 0
              /\ process_details(s, text, fail, write_ok, FALSE) )
            => /\ Forwards(out') = {}
               /\ out'[1] = Msg(s, "thanks_summary")
               /\ write_ok => (GrewByOne /\ Last(file'.lines).obj.details = TextOrEmptyStripped(text))
               /\ data'[s] = EmptyData
               /\ state'[s] = Idle
       /\ \A s \in Sessions \cap {ev'.s}, text \in Texts \cap {ev'.inp},
             fail \in {0, 2}, forward_ok \in BOOLEAN :
            ( /\ Forwards(out') # {}
              /\ process_details(s, text, fail, TRUE, forward_ok) )
            => GrewByOne
      ]_vars

\* C15 witness: an admin is configured, the lead of the details step is in
\* the log, the requester got summary and closing line, nothing was forwarded
C15_Witness ==
    /\ ADMIN_CHAT_ID = 2
    /\ ev = Update(1, "message", <<" ", "a", " ">>)
    /\ out = <<Msg(1, "thanks_summary"), Msg(1, "start_again")>>
    /\ Len(file.lines) = 1
    /\ file.lines[1].obj.details = <<"a">>
    /\ state[1] = Idle
    /\ data[1] = EmptyData

\* C18: every step leaves the log as it was or adds one line at its end, and
\* the only step that adds one is a details text handled in phase
\* CollectingDetails: /start, /cancel, a service selection, the other
\* collection steps and /leads never write.
C18_AppendOnlyAtFinalize ==
    [][/\ file' = file \/ GrewByOne
       /\ file' # file
          => /\ ev'.kind = "message"
             /\ state[ev'.s] = getting_details
             /\ \A c \in Commands : ~IsCommand(ev'.inp, c[1])
      ]_vars

\* the keys the data holds in each phase
KeysIn(phase) ==
    CASE phase \in {Idle, choosing_service} -> {}
      [] phase = getting_name -> {"service"}
      [] phase = getting_city -> {"service", "name"}
      [] phase = getting_contact -> {"service", "name", "city"}
      [] phase = getting_details -> {"service", "name", "city", "contact"}

\* the phase of every session determines the keys of its data, and a stored
\* service is an entry of the catalog
PhaseDeterminesData ==
    \A s \in Sessions :
        /\ DOMAIN data[s] = KeysIn(state[s])
        /\ "service" \in DOMAIN data[s]
           => \E i \in 1..Len(SERVICE_OPTIONS) : data[s].service = SERVICE_OPTIONS[i]

\* C20: with updates handled one at a time, every step ends in a state where
\* the phase determines what the data holds (nothing in Idle and
\* ChoosingService, then service, name, city, contact added phase by phase)
\* with the service an entry of the catalog, and a service selection received
\* outside ChoosingService changes nothing.
C20_PhaseDeterminesCollected ==
    [][/\ PhaseDeterminesData'
       /\ \A s \in Sessions, cd \in Payloads :
            ( /\ state[s] # choosing_service
              /\ StartsWithSvc(cd)
              /\ \E fail \in 0..2 : process_service_callback(s, cd, fail)
                 \/ unhandled_callback(s, cd) )
            => /\ state' = state
               /\ data' = data
               /\ file' = file
      ]_vars

\* the field values session s can have supplied
SuppliedBy(s) == {TextOrEmptyStripped(text) : text \in TextsOf(s)}

\* the services session s can have selected
SelectedBy(s) == {SERVICE_OPTIONS[ServiceIndex(cd) + 1] : cd \in PayloadsOf(s)}

\* C17: an update handled for one session leaves the phase and the data of
\* every other session as they were, and a lead appended by a session holds
\* that session's id, the service it selected and the texts it supplied: the
\* values of its own data before the step and the stripped details text.
C17_SessionsIndependent ==
    [][/\ \A b \in Sessions :
            b # ev'.s => (state'[b] = state[b] /\ data'[b] = data[b])
       /\ file' # file
          => LET a == ev'.s
                 lead == Last(file'.lines).obj
             IN /\ lead.tg_id = a
                /\ \A k \in {"service", "name", "city", "contact"} :
                     lead[k] = Get(data[a], k)
                /\ lead.details = TextOrEmptyStripped(ev'.inp)
                /\ lead.service \in SelectedBy(a)
                /\ \A k \in {"name", "city", "contact", "details"} :
                     lead[k] \in SuppliedBy(a)
      ]_vars

\* C17 witness: session 2 has just finalized a lead of its own values while
\* session 1 is in the middle of its pass with its own
C17_Witness ==
    /\ ev.s = 2
    /\ state[2] = Idle
    /\ Len(file.lines) = 1
    /\ file.lines[1].obj.tg_id = 2
    /\ file.lines[1].obj.service = SERVICE_OPTIONS[1]
    /\ file.lines[1].obj.name = <<"b">>
    /\ file.lines[1].obj.details = <<"b">>
    /\ state[1] = getting_contact
    /\ data[1] = [service |-> SERVICE_OPTIONS[5], name |-> <<"a">>, city |-> <<"a">>]

\* C16: updates of one session are handled as if one after the other, so a
\* user who starts the flow once, whatever is sent twice on the way, gets at
\* most one lead appended.
C16_OnePassOneLead ==
    Len(file.lines) <= 1

====
